---- MODULE Spec2Model ----
(* State-machine model of slicer/lazy.py: ImportGroup (the "Guard"),        *)
(* VeryLazyFinder / VeryLazyLoader (the resolution hook), VeryLazyModule    *)
(* (the placeholder), the global registry sys.modules and the resolution    *)
(* chain sys.meta_path.  The subsystem is single-threaded.  A call that     *)
(* blocks in pip or in the body of a unit being loaded is a frame of the    *)
(* call stack; while the innermost frame waits, other code of the process   *)
(* runs and may call every operation again.                                 *)
EXTENDS Integers, Sequences, FiniteSets, TLC

\* ---------------------------------------------------------------- bounds
NGuards == 2
MaxPlaceholders == 2
MaxDepth == 2
MaxInstalls == 2
MaxNesting == 2
\* direct calls of lock(), unlock() and register() in one behaviour
MaxDirect == 2

Guards == 1..NGuards
Names == {"ux", "uy"}
\* the ``requires`` constructor argument: None, "" or a path
RequiresArgs == {"None", "Empty", "Path"}
\* attribute names read on a module object
Attrs == {"magic", "__real_module__"}
\* what the installer does when it is run: the dry run raises, reports an
\* empty plan, or reports a plan and the real install then raises or returns
PipEnvs == {<<"raise", "ok">>, <<"empty", "ok">>, <<"plan", "raise">>, <<"plan", "ok">>}

VARIABLES
    requires,      \* g -> self.requires is not None
    need_install,  \* g -> self.need_install
    modules,       \* g -> (name -> the module object of that key, or Absent)
    order,         \* g -> keys of self.modules in insertion order
    meta_path,     \* the ImportGroup finders at the front of sys.meta_path
    sys_modules,   \* name -> binding
    ph,            \* the placeholder objects created so far
    direct,        \* direct calls of lock(), unlock(), register() made so far
    calls,         \* the calls waiting for pip or for a unit's body, innermost first
    installCalls,  \* g -> real "pip install" runs made for g (history)
    entered,       \* enters not yet exited, most recent first (history)
    enteredUnder,  \* per finder of the chain: the other guards active at that enter (history)
    nestedDone,    \* <<a, b>>, a # b: an enter of b made while a was active has been exited (history)
    trapStarts,    \* placeholder id -> calls of its __getattr__ (history)
    everReal       \* the names that have been bound to their real unit (history)

\* everything but the history of real bindings
state == <<requires, need_install, modules, order, meta_path, sys_modules, ph,
           calls, direct, installCalls, entered, enteredUnder, nestedDone, trapStarts>>

vars == <<state, everReal>>

\* ------------------------------------------- module objects and bindings
\* a sys.modules entry, a value of self.modules, a __real_module__: no entry,
\* None, the genuine unit of the name, or placeholder i
Absent == [kind |-> "absent", id |-> 0]
Locked == [kind |-> "locked", id |-> 0]
Real == [kind |-> "real", id |-> 0]
Ph(i) == [kind |-> "ph", id |-> i]
\* a module object that sys.modules does not hold: a unit object whose
\* binding was rewritten or deleted (a later load of the name makes a new
\* object), or a module object that code made itself
Stale == [kind |-> "stale", id |-> 0]

Range(s) == {s[i] : i \in 1..Len(s)}
Count(s, e) == Cardinality({i \in 1..Len(s) : s[i] = e})

\* ------------------------------------------------------------ constructor
\* ImportGroup.__init__: requires is None for None and for ""; need_install
\* is ``requires is not None`` of the argument
ImportGroupInit(arg) ==
    [requires |-> arg = "Path", need_install |-> arg # "None"]

Init ==
    /\ \E args \in [Guards -> RequiresArgs] :
          /\ requires = [g \in Guards |-> ImportGroupInit(args[g]).requires]
          /\ need_install = [g \in Guards |-> ImportGroupInit(args[g]).need_install]
    /\ modules = [g \in Guards |-> [n \in Names |-> Absent]]
    /\ order = [g \in Guards |-> <<>>]
    /\ meta_path = <<>>
    /\ sys_modules = [n \in Names |-> Absent]
    /\ ph = <<>>
    /\ calls = <<>>
    /\ direct = 0
    /\ installCalls = [g \in Guards |-> 0]
    /\ entered = <<>>
    /\ enteredUnder = <<>>
    /\ nestedDone = {}
    /\ trapStarts = [p \in 1..MaxPlaceholders |-> 0]
    /\ everReal = {}

\* ----------------------------------------------------------- list helpers
\* list.insert(0, x)
Insert0(s, x) == <<x>> \o s

\* list.remove(x): drops the first occurrence of x (x is in s)
RECURSIVE Remove(_, _)
Remove(s, x) ==
    IF s = <<>> THEN <<>>
    ELSE IF Head(s) = x THEN Tail(s)
    ELSE <<Head(s)>> \o Remove(Tail(s), x)

\* list.index(x): the position of the first occurrence of x (x is in s)
IndexOf(s, x) == CHOOSE k \in 1..Len(s) : s[k] = x /\ \A j \in 1..(k - 1) : s[j] # x

\* the sequence without its k-th element
DropAt(s, k) == SubSeq(s, 1, k - 1) \o SubSeq(s, k + 1, Len(s))

\* ---------------------------------------------------- ImportGroup methods
\* register(): self.modules[name] = module; a new key goes last in the dict
register(mods, ord, n, obj) ==
    [modules |-> [mods EXCEPT ![n] = obj],
     order |-> IF n \in Range(ord) THEN ord ELSE Append(ord, n)]

\* lock() without the test ``sys.modules[name] is module``
lock_any(keys, mods, sm) ==
    [sm |-> [n \in DOMAIN sm |->
                IF n \in Range(keys) /\ sm[n] # Absent THEN Locked ELSE sm[n]],
     raised |-> \E n \in Range(keys) : sm[n] = Absent]

\* lock(): walks self.modules in insertion order; sys.modules[name] raises
\* KeyError for a name that is not in sys.modules, which ends the walk
RECURSIVE lock(_, _, _)
lock(keys, mods, sm) ==
    IF keys = <<>> THEN [sm |-> sm, raised |-> FALSE]
    ELSE LET name == Head(keys) IN
         IF sm[name] = Absent THEN [sm |-> sm, raised |-> TRUE]
         ELSE lock(Tail(keys), mods,
                   IF sm[name] = mods[name]
                   THEN [sm EXCEPT ![name] = Locked]
                   ELSE sm)

\* unlock() without the test ``sys.modules[name] is None``
unlock_all(keys, sm) ==
    [n \in Names |-> IF n \in Range(keys) THEN Absent ELSE sm[n]]

\* unlock(): deletes the None entry of every name in self.modules
unlock(keys, sm) ==
    [n \in Names |-> IF n \in Range(keys) /\ sm[n] = Locked THEN Absent ELSE sm[n]]

\* _pip_install(): dry run, then the real install when the report lists
\* anything; an exception of either _pip call propagates
_pip_install(dry, inst) ==
    IF dry = "raise" THEN [raised |-> "DryRunError", events |-> <<"dryrun">>]
    ELSE IF dry = "empty" THEN [raised |-> "", events |-> <<"dryrun">>]
    ELSE IF inst = "raise"
         THEN [raised |-> "InstallError", events |-> <<"dryrun", "install">>]
         ELSE [raised |-> "", events |-> <<"dryrun", "install">>]

\* resolve() with the installer's exception caught and dropped
resolve_swallow(need, req, dry, inst) ==
    IF ~need \/ ~req THEN [raised |-> "", need_install |-> need, events |-> <<>>]
    ELSE [raised |-> "", need_install |-> need,
          events |-> _pip_install(dry, inst).events]

\* resolve() from its call to its return, when nothing else runs while pip
\* does: returns early unless need_install and requires; need_install is
\* cleared only when _pip_install returned; raised is the exception that
\* leaves resolve()
resolve(need, req, dry, inst) ==
    IF ~need THEN [raised |-> "", need_install |-> need, events |-> <<>>]
    ELSE IF ~req THEN [raised |-> "", need_install |-> need, events |-> <<>>]
    ELSE LET r == _pip_install(dry, inst) IN
         [raised |-> r.raised,
          need_install |-> IF r.raised = "" THEN FALSE ELSE need,
          events |-> r.events]

\* __enter__() with the finder appended behind the chain
enter_append(mp, g) == Append(mp, g)

\* __enter__(): sys.meta_path.insert(0, self.finder)
enter(mp, g) == Insert0(mp, g)

\* __exit__(): sys.meta_path.remove(self.finder), which raises ValueError
\* when the finder is not in the list, then lock()
exit(mp, g, keys, mods, sm) ==
    IF g \notin Range(mp)
    THEN [outcome |-> "ValueError", meta_path |-> mp, sm |-> sm, events |-> <<>>]
    ELSE LET r == lock(keys, mods, sm) IN
         [outcome |-> IF r.raised THEN "KeyError" ELSE "ok",
          meta_path |-> Remove(mp, g), sm |-> r.sm,
          events |-> <<"remove", "lock">>]

\* the with statement leaving the block of g while exception exc is raised:
\* __exit__ returns None, so exc goes on to the caller unless __exit__
\* itself raised
with_exit(mp, g, keys, mods, sm, exc) ==
    LET r == exit(mp, g, keys, mods, sm) IN
    [outcome |-> r.outcome, meta_path |-> r.meta_path, sm |-> r.sm,
     events |-> r.events,
     propagates |-> IF r.outcome # "ok" THEN r.outcome ELSE exc]

\* ------------------------------------------------- the resolution machinery
\* find_spec() returning None, which hands the lookup to the next finder
find_spec_defer(finder) == [found |-> FALSE, loader_state |-> finder]

\* VeryLazyFinder.find_spec(): always a spec, its loader_state is the group
find_spec(finder) == [found |-> TRUE, loader_state |-> finder]

\* VeryLazyLoader.exec_module(): the fresh module becomes a VeryLazyModule
\* and is registered to the group of its spec
exec_module(phs, mods, ord, n, g) ==
    LET id == Len(phs) + 1
        reg == register(mods[g], ord[g], n, Ph(id))
    IN [ph |-> Append(phs, [name |-> n, group |-> g, lazy |-> TRUE,
                             real |-> Absent, magic |-> FALSE]),
        modules |-> [mods EXCEPT ![g] = reg.modules],
        order |-> [ord EXCEPT ![g] = reg.order],
        id |-> id]

\* _find_and_load with the ImportGroup finders behind the ordinary ones
find_and_load_eager(n, sm, mp, phs, mods, ord, loadOk) ==
    LET same == [sm |-> sm, ph |-> phs, modules |-> mods, order |-> ord]
    IN
    IF sm[n] = Locked
    THEN [outcome |-> "halted", ret |-> Absent, events |-> <<>>] @@ same
    ELSE IF sm[n] # Absent
    THEN [outcome |-> "ok", ret |-> sm[n], events |-> <<>>] @@ same
    ELSE IF loadOk
    THEN [outcome |-> "ok", ret |-> Real, events |-> <<"load">>,
          sm |-> [sm EXCEPT ![n] = Real], ph |-> phs, modules |-> mods,
          order |-> ord]
    ELSE IF mp # <<>>
    THEN LET m == exec_module(phs, mods, ord, n, Head(mp))
         IN [outcome |-> "ok", ret |-> Ph(m.id), events |-> <<"load", "hook">>,
             sm |-> [sm EXCEPT ![n] = Ph(m.id)], ph |-> m.ph,
             modules |-> m.modules, order |-> m.order]
    ELSE [outcome |-> "notfound", ret |-> Absent, events |-> <<"load">>] @@ same

\* importlib's _find_and_load, as the import statement and
\* importlib.import_module run it: sys.modules first (None halts the
\* import), then the first finder of sys.meta_path that returns a spec, and
\* the ordinary finders only behind the ImportGroup finders.  The events are
\* "hook" for a placeholder made by a finder and "load" for a genuine load
\* by the ordinary finders: with loadOk the unit is found and bound, and
\* its body runs next
find_and_load(n, sm, mp, phs, mods, ord, loadOk) ==
    LET same == [sm |-> sm, ph |-> phs, modules |-> mods, order |-> ord]
    IN
    IF sm[n] = Locked
    THEN [outcome |-> "halted", ret |-> Absent, events |-> <<>>] @@ same
    ELSE IF sm[n] # Absent
    THEN [outcome |-> "ok", ret |-> sm[n], events |-> <<>>] @@ same
    ELSE IF mp # <<>> /\ find_spec(Head(mp)).found
    THEN LET m == exec_module(phs, mods, ord, n, find_spec(Head(mp)).loader_state)
         IN [outcome |-> "ok", ret |-> Ph(m.id), events |-> <<"hook">>,
             sm |-> [sm EXCEPT ![n] = Ph(m.id)], ph |-> m.ph,
             modules |-> m.modules, order |-> m.order]
    ELSE IF loadOk
    THEN [outcome |-> "ok", ret |-> Real, events |-> <<"load">>,
          sm |-> [sm EXCEPT ![n] = Real], ph |-> phs, modules |-> mods,
          order |-> ord]
    ELSE [outcome |-> "notfound", ret |-> Absent, events |-> <<"load">>] @@ same

\* _load_unlocked after the body of the unit: an exception of the body
\* deletes the entry of the name; otherwise the import returns what
\* sys.modules holds under the name then, and KeyError when it holds nothing
load_end(n, sm, bodyOk) ==
    IF ~bodyOk THEN [outcome |-> "BodyError", ret |-> Absent,
                     sm |-> [sm EXCEPT ![n] = Absent]]
    ELSE IF sm[n] = Absent THEN [outcome |-> "KeyError", ret |-> Absent, sm |-> sm]
    ELSE [outcome |-> "ok", ret |-> sm[n], sm |-> sm]

\* ordinary attribute lookup on a module object: its __dict__
HasAttr(o, attr) ==
    \/ attr = "magic" /\ o.magic
    \/ attr = "__real_module__" /\ o.real # Absent

\* __getattr__ with the class of the placeholder left as it is
trap_begin_late(phs, p) == phs

\* the first statement of __getattr__: self.__class__ = types.ModuleType
trap_begin(phs, p) == [phs EXCEPT ![p].lazy = FALSE]

\* "magic" is in the __dict__ of the unit bound under n: always once its
\* body has ended; while the body runs (the unit is bound, and import_module
\* returns it, before its body has ended), only when the body has already
\* defined it
unit_has_magic(n, cs, defined) ==
    IF \E i \in 1..Len(cs) : cs[i].stage = "exec" /\ cs[i].n = n
    THEN defined ELSE TRUE

\* self.__real_module__ = mod, then self.__dict__.update(mod.__dict__): the
\* __real_module__ entry of another module object's dict overwrites it, and
\* None (mod = Locked) has no __dict__; of a unit, what its __dict__ holds
\* at that moment is copied (unitMagic)
copy_members(phs, p, mod, unitMagic) ==
    LET src == IF mod.kind = "ph" THEN phs[mod.id] ELSE phs[p]
        newReal == IF mod.kind = "ph" /\ mod.id # p /\ src.real # Absent
                   THEN src.real ELSE mod
        newMagic == (mod = Real /\ unitMagic) \/ (mod.kind = "ph" /\ src.magic)
    IN [phs EXCEPT ![p].real = newReal, ![p].magic = newMagic]

\* reading attribute attr of module object p traps in __getattr__ when the
\* ordinary lookup fails and the object is still a VeryLazyModule
Traps(p, attr) == ph[p].lazy /\ ~HasAttr(ph[p], attr)

\* getattr(module, attr) that does not reach __getattr__: the value, or
\* AttributeError
read_attr(p, attr) ==
    [outcome |-> IF HasAttr(ph[p], attr) THEN "value" ELSE "AttributeError",
     ret |-> IF HasAttr(ph[p], attr) /\ attr = "__real_module__"
             THEN ph[p].real ELSE Absent]

\* real_module(): getattr(module, "__real_module__", module) on an object
\* that does not trap: the default, the object itself, replaces the
\* AttributeError
real_module(p) ==
    [outcome |-> "value",
     ret |-> IF HasAttr(ph[p], "__real_module__") THEN ph[p].real ELSE Ph(p)]

\* ------------------------------------------------------ object identity
\* self.modules after sys.modules went from sm to sm2: a unit object held
\* there whose binding was rewritten or deleted is not the object that any
\* later binding of the name holds
forget(mods, sm, sm2) ==
    [g \in Guards |-> [n \in Names |->
        IF mods[g][n] = Real /\ sm[n] = Real /\ sm2[n] # Real
        THEN Stale ELSE mods[g][n]]]

\* ------------------------------------------------------------ call stack
\* a call that waits: resolve() or __getattr__ for pip (stage "pip"), an
\* import statement or __getattr__ for the body of the unit (stage "exec")
ResolveFrame(g) == [op |-> "resolve", g |-> g, p |-> 0, n |-> "", stage |-> "pip"]
TrapFrame(p, stage) ==
    [op |-> "trap", g |-> ph[p].group, p |-> p, n |-> ph[p].name, stage |-> stage]
ImportFrame(n) == [op |-> "import", g |-> 0, p |-> 0, n |-> n, stage |-> "exec"]

\* Python code of the process runs: nothing waits, or the innermost call
\* waits for pip or for the body of a unit, which is such code or lets it run
Suspended == IF calls = <<>> THEN TRUE ELSE Head(calls).stage \in {"pip", "exec"}

\* importlib.import_module(name) in __getattr__, up to its return or to the
\* start of the body of the unit (exec); what is returned at once is copied,
\* a unit whose body is running as far as the body got
trap_import(p, sm, phs, mods, ord, mp, loadOk, defined) ==
    LET fl == find_and_load(phs[p].name, sm, mp, phs, mods, ord, loadOk)
        genuine == fl.outcome = "ok" /\ "load" \in Range(fl.events)
    IN [sm |-> fl.sm, modules |-> fl.modules, order |-> fl.order,
        ph |-> IF fl.outcome = "ok" /\ ~genuine
               THEN copy_members(fl.ph, p, fl.ret,
                                 unit_has_magic(phs[p].name, calls, defined))
               ELSE fl.ph,
        exec |-> genuine]

\* ------------------------------------------------------------- operations
\* with g: ...   (entering)
EnterCore(g) ==
    /\ Suspended
    /\ Len(meta_path) < MaxDepth
    /\ meta_path' = enter(meta_path, g)
    /\ entered' = <<g>> \o entered
    /\ UNCHANGED <<direct, requires, need_install, modules, order, sys_modules, ph,
                   calls, installCalls, nestedDone, trapStarts>>

Enter(g) == EnterCore(g) /\ UNCHANGED enteredUnder

\* the most recent enter of g leaves the history of open enters
RECURSIVE CloseEnter(_, _)
CloseEnter(h, g) ==
    IF h = <<>> THEN <<>>
    ELSE IF h[1] = g THEN SubSeq(h, 2, Len(h))
    ELSE <<h[1]>> \o CloseEnter(SubSeq(h, 2, Len(h)), g)

\* leaving the with block of g, or a direct call of g.__exit__
ExitCore(g) ==
    LET r == exit(meta_path, g, order[g], modules[g], sys_modules) IN
    /\ Suspended
    /\ meta_path' = r.meta_path
    /\ sys_modules' = r.sm
    /\ modules' = forget(modules, sys_modules, r.sm)
    /\ entered' = IF r.outcome = "ValueError" THEN entered
                  ELSE CloseEnter(entered, g)
    /\ UNCHANGED <<direct, requires, need_install, order, ph, calls,
                   installCalls, trapStarts>>

Exit(g) == ExitCore(g) /\ UNCHANGED <<enteredUnder, nestedDone>>

\* g.lock(), called directly; a KeyError ends it where it is
Lock(g) ==
    LET r == lock(order[g], modules[g], sys_modules) IN
    /\ Suspended
    /\ direct < MaxDirect
    /\ direct' = direct + 1
    /\ sys_modules' = r.sm
    /\ modules' = forget(modules, sys_modules, r.sm)
    /\ UNCHANGED <<requires, need_install, order, meta_path, ph, calls,
                   installCalls, entered, enteredUnder, nestedDone, trapStarts>>

\* g.unlock(), called directly
Unlock(g) ==
    /\ Suspended
    /\ direct < MaxDirect
    /\ direct' = direct + 1
    /\ sys_modules' = unlock(order[g], sys_modules)
    /\ UNCHANGED <<requires, need_install, modules, order, meta_path, ph, calls,
                   installCalls, entered, enteredUnder, nestedDone, trapStarts>>

\* the module objects named n that code can hold: the placeholders made for
\* n, the unit bound under n, and module objects that sys.modules does not
\* hold (register() takes any module that has a __spec__)
ModuleObjects(n) ==
    {Ph(i) : i \in {j \in 1..Len(ph) : ph[j].name = n}}
        \cup (IF sys_modules[n] = Real THEN {Real} ELSE {})
        \cup {Stale}

\* g.register(module), called directly with a module object named n
Register(g, n, obj) ==
    LET reg == register(modules[g], order[g], n, obj) IN
    /\ Suspended
    /\ direct < MaxDirect
    /\ direct' = direct + 1
    /\ obj \in ModuleObjects(n)
    /\ modules' = [modules EXCEPT ![g] = reg.modules]
    /\ order' = [order EXCEPT ![g] = reg.order]
    /\ UNCHANGED <<requires, need_install, meta_path, sys_modules, ph, calls,
                   installCalls, entered, enteredUnder, nestedDone, trapStarts>>

\* g.resolve(), called directly: it returns at once, or waits for pip
ResolveCall(g) ==
    /\ Suspended
    /\ IF need_install[g] /\ requires[g]
       THEN /\ Len(calls) < MaxNesting
            /\ calls' = <<ResolveFrame(g)>> \o calls
       ELSE calls' = calls
    /\ UNCHANGED <<direct, requires, need_install, modules, order, meta_path,
                   sys_modules, ph, installCalls, entered, enteredUnder,
                   nestedDone, trapStarts>>

\* the statement ``import n``: it returns or raises at once, or a genuine
\* load binds the unit and waits for its body
Import(n, loadOk) ==
    LET r == find_and_load(n, sys_modules, meta_path, ph, modules, order, loadOk)
        genuine == r.outcome = "ok" /\ "load" \in Range(r.events)
    IN
    /\ Suspended
    /\ Len(r.ph) <= MaxPlaceholders
    /\ genuine => Len(calls) < MaxNesting
    /\ sys_modules' = r.sm
    /\ ph' = r.ph
    /\ modules' = r.modules
    /\ order' = r.order
    /\ calls' = IF genuine THEN <<ImportFrame(n)>> \o calls ELSE calls
    /\ UNCHANGED <<direct, requires, need_install, meta_path, installCalls, entered,
                   enteredUnder, nestedDone, trapStarts>>

\* reading an attribute that the module object has, or that is missing on a
\* module that is no VeryLazyModule any more: no state changes
ReadAttr(p, attr) ==
    /\ Suspended
    /\ ~Traps(p, attr)
    /\ read_attr(p, attr).outcome \in {"value", "AttributeError"}
    /\ UNCHANGED state

\* real_module(module) on an object that does not trap (on one that does,
\* it is the read of __real_module__ that starts __getattr__)
RealModule(p) ==
    /\ Suspended
    /\ ~Traps(p, "__real_module__")
    /\ real_module(p).outcome = "value"
    /\ UNCHANGED state

\* an attribute read on placeholder p reaches __getattr__: the class reset,
\* group.unlock(), and group.resolve() up to the call of pip; when resolve()
\* returns at once, import_module up to the body of the unit
TrapBegin(p, attr, loadOk, defined) ==
    LET g == ph[p].group
        ph1 == trap_begin(ph, p)
        sm1 == unlock(order[g], sys_modules)
        pip == need_install[g] /\ requires[g]
        ti == trap_import(p, sm1, ph1, modules, order, meta_path, loadOk, defined)
    IN
    /\ Suspended
    /\ Traps(p, attr)
    /\ Len(calls) < MaxNesting
    /\ trapStarts[p] < MaxNesting
    /\ ~pip => Len(ti.ph) <= MaxPlaceholders
    /\ ph' = IF pip THEN ph1 ELSE ti.ph
    /\ sys_modules' = IF pip THEN sm1 ELSE ti.sm
    /\ modules' = IF pip THEN modules ELSE ti.modules
    /\ order' = IF pip THEN order ELSE ti.order
    /\ calls' = IF pip THEN <<TrapFrame(p, "pip")>> \o calls
                ELSE IF ti.exec THEN <<TrapFrame(p, "exec")>> \o calls
                ELSE calls
    /\ trapStarts' = [trapStarts EXCEPT ![p] = @ + 1]
    /\ UNCHANGED <<direct, requires, need_install, meta_path, installCalls, entered,
                   enteredUnder, nestedDone>>

\* pip ends for the innermost call, whose resolve() had passed its two
\* tests when it called pip: _pip_install raises, and so does the call, or it
\* returns and resolve() sets need_install = False; __getattr__ then goes on
\* to import_module
PipDoneCore(dry, inst, loadOk, defined) ==
    LET f == Head(calls)
        r == resolve(TRUE, TRUE, dry, inst)
        loads == r.raised = "" /\ f.op = "trap"
        ti == trap_import(f.p, sys_modules, ph, modules, order, meta_path, loadOk,
                          defined)
    IN
    /\ calls # <<>>
    /\ f.stage = "pip"
    /\ loads => Len(ti.ph) <= MaxPlaceholders
    /\ need_install' = IF r.raised = ""
                       THEN [need_install EXCEPT ![f.g] = r.need_install]
                       ELSE need_install
    /\ sys_modules' = IF loads THEN ti.sm ELSE sys_modules
    /\ ph' = IF loads THEN ti.ph ELSE ph
    /\ modules' = IF loads THEN ti.modules ELSE modules
    /\ order' = IF loads THEN ti.order ELSE order
    /\ calls' = IF loads /\ ti.exec
                THEN <<TrapFrame(f.p, "exec")>> \o Tail(calls)
                ELSE Tail(calls)
    /\ UNCHANGED <<direct, requires, meta_path, entered, enteredUnder, nestedDone,
                   trapStarts>>

PipDone(dry, inst, loadOk, defined) ==
    PipDoneCore(dry, inst, loadOk, defined) /\ UNCHANGED installCalls

\* the body of the unit ends for the innermost call: the import returns or
\* raises, and __getattr__ copies what import_module returned
ExecDone(bodyOk) ==
    LET f == Head(calls)
        e == load_end(f.n, sys_modules, bodyOk)
    IN
    /\ calls # <<>>
    /\ f.stage = "exec"
    /\ sys_modules' = e.sm
    /\ modules' = forget(modules, sys_modules, e.sm)
    /\ ph' = IF f.op = "trap" /\ e.outcome = "ok"
             THEN copy_members(ph, f.p, e.ret, TRUE) ELSE ph
    /\ calls' = Tail(calls)
    /\ UNCHANGED <<direct, requires, need_install, order, meta_path,
                   installCalls, entered, enteredUnder, nestedDone, trapStarts>>

\* the history of real bindings is kept by SpecBindings only
Untracked == UNCHANGED everReal
Tracked == everReal' = everReal \cup {n \in Names : sys_modules'[n] = Real}

\* ------- the use the module is made for: with blocks, imports inside and
\* outside of them, reads of attributes of the imported modules, and what
\* runs while one of these waits for pip or for the body of a unit
\* (lock(), unlock(), register() and resolve() run here as __exit__,
\* exec_module and __getattr__ call them; called directly, they are steps of
\* NextDirect and NextInstalls)
Next ==
    \/ \E g \in Guards : Enter(g) /\ Untracked
    \/ \E g \in Guards : Exit(g) /\ Untracked
    \/ \E n \in Names, loadOk \in BOOLEAN : Import(n, loadOk) /\ Untracked
    \/ \E p \in 1..Len(ph), attr \in Attrs : ReadAttr(p, attr) /\ Untracked
    \/ \E p \in 1..Len(ph) : RealModule(p) /\ Untracked
    \/ \E p \in 1..Len(ph), attr \in Attrs, loadOk \in BOOLEAN, defined \in BOOLEAN :
          TrapBegin(p, attr, loadOk, defined) /\ Untracked
    \/ \E e \in PipEnvs, loadOk \in BOOLEAN, defined \in BOOLEAN :
          PipDone(e[1], e[2], loadOk, defined) /\ Untracked
    \/ \E bodyOk \in BOOLEAN : ExecDone(bodyOk) /\ Untracked

Spec == Init /\ [][Next]_vars

\* ------- with blocks and imports, and lock(), unlock() and register()
\* called directly on the guards
NextDirect ==
    \/ \E g \in Guards : Enter(g) /\ Untracked
    \/ \E g \in Guards : Exit(g) /\ Untracked
    \/ \E g \in Guards : Lock(g) /\ Untracked
    \/ \E g \in Guards : Unlock(g) /\ Untracked
    \/ \E g \in Guards, n \in Names, obj \in {Real, Stale} \cup {Ph(i) : i \in 1..MaxPlaceholders} :
          Register(g, n, obj) /\ Untracked
    \/ \E n \in Names, loadOk \in BOOLEAN : Import(n, loadOk) /\ Untracked
    \/ \E bodyOk \in BOOLEAN : ExecDone(bodyOk) /\ Untracked

SpecDirect == Init /\ [][NextDirect]_vars

\* ------- one guard used in with blocks, by attribute reads and by direct
\* calls of resolve(), counting its real installs
InstallGuards == {1}

PipDoneCounted(dry, inst, loadOk, defined) ==
    LET g == Head(calls).g
        k == Count(_pip_install(dry, inst).events, "install")
    IN
    /\ calls # <<>>
    /\ Head(calls).stage = "pip"
    /\ installCalls[g] + k <= MaxInstalls
    /\ PipDoneCore(dry, inst, loadOk, defined)
    /\ installCalls' = [installCalls EXCEPT ![g] = @ + k]

NextInstalls ==
    \/ \E g \in InstallGuards : Enter(g) /\ Untracked
    \/ \E g \in InstallGuards : Exit(g) /\ Untracked
    \/ \E g \in InstallGuards : ResolveCall(g) /\ Untracked
    \/ \E n \in Names, loadOk \in BOOLEAN : Import(n, loadOk) /\ Untracked
    \/ \E p \in 1..Len(ph), attr \in Attrs : ReadAttr(p, attr) /\ Untracked
    \/ \E p \in 1..Len(ph), attr \in Attrs, loadOk \in BOOLEAN, defined \in BOOLEAN :
          TrapBegin(p, attr, loadOk, defined) /\ Untracked
    \/ \E e \in PipEnvs, loadOk \in BOOLEAN, defined \in BOOLEAN :
          PipDoneCounted(e[1], e[2], loadOk, defined) /\ Untracked
    \/ \E bodyOk \in BOOLEAN : ExecDone(bodyOk) /\ Untracked

SpecInstalls == Init /\ [][NextInstalls]_vars

\* ------- with blocks, imports and attribute reads of guards that have no
\* dependency spec, recording which enter was made while which other guards
\* were active
EnterNested(g) ==
    /\ EnterCore(g)
    /\ enteredUnder' = <<Range(meta_path) \ {g}>> \o enteredUnder

\* sys.meta_path.remove takes the first finder of g out of the chain: that
\* enter has been exited
ExitNested(g) ==
    /\ ExitCore(g)
    /\ IF g \in Range(meta_path)
       THEN LET k == IndexOf(meta_path, g) IN
            /\ nestedDone' = nestedDone \cup {<<a, g>> : a \in enteredUnder[k]}
            /\ enteredUnder' = DropAt(enteredUnder, k)
       ELSE UNCHANGED <<enteredUnder, nestedDone>>

NextNested ==
    \/ \E g \in Guards : EnterNested(g) /\ Untracked
    \/ \E g \in Guards : ExitNested(g) /\ Untracked
    \/ \E n \in Names, loadOk \in BOOLEAN : Import(n, loadOk) /\ Untracked
    \/ \E p \in 1..Len(ph), attr \in Attrs, loadOk \in BOOLEAN, defined \in BOOLEAN :
          TrapBegin(p, attr, loadOk, defined) /\ Untracked
    \/ \E bodyOk \in BOOLEAN : ExecDone(bodyOk) /\ Untracked

\* every guard is ImportGroup(None): no call waits for pip
InitNested == Init /\ \A g \in Guards : ~requires[g] /\ ~need_install[g]

SpecNested == InitNested /\ [][NextNested]_vars

\* ------- the same use, recording the names that have been bound to their
\* real unit
NextBindings ==
    \/ \E g \in Guards : Enter(g) /\ Tracked
    \/ \E g \in Guards : Exit(g) /\ Tracked
    \/ \E n \in Names, loadOk \in BOOLEAN : Import(n, loadOk) /\ Tracked
    \/ \E p \in 1..Len(ph), attr \in Attrs : ReadAttr(p, attr) /\ Tracked
    \/ \E p \in 1..Len(ph) : RealModule(p) /\ Tracked
    \/ \E p \in 1..Len(ph), attr \in Attrs, loadOk \in BOOLEAN, defined \in BOOLEAN :
          TrapBegin(p, attr, loadOk, defined) /\ Tracked
    \/ \E e \in PipEnvs, loadOk \in BOOLEAN, defined \in BOOLEAN :
          PipDone(e[1], e[2], loadOk, defined) /\ Tracked
    \/ \E bodyOk \in BOOLEAN : ExecDone(bodyOk) /\ Tracked

SpecBindings == Init /\ [][NextBindings]_vars

ModuleValues == {Absent, Locked, Real, Stale} \cup {Ph(i) : i \in 1..MaxPlaceholders}

TypeOK ==
    /\ Len(ph) <= MaxPlaceholders
    /\ Len(meta_path) <= MaxDepth
    /\ Len(calls) <= MaxNesting
    /\ direct \in 0..MaxDirect
    /\ \A n \in Names : sys_modules[n] \in ModuleValues \ {Stale}
    /\ \A g \in Guards : \A n \in Names :
          /\ modules[g][n] \in ModuleValues \ {Locked}
          /\ n \in Range(order[g]) <=> modules[g][n] # Absent
    /\ Len(enteredUnder) \in {0, Len(meta_path)}

\* ------------------------------------------------------------ vocabulary
Keys(g) == Range(order[g])
Active(g) == g \in Range(meta_path)
\* a guard that has registered names and is not active has exited
Exited(g) == ~Active(g) /\ Keys(g) # {}
\* the statement ``import n`` in the current state
ImportNow(n, loadOk) ==
    find_and_load(n, sys_modules, meta_path, ph, modules, order, loadOk)
\* the placeholders whose __getattr__ has started and not ended
InProgress == {calls[i].p : i \in {j \in 1..Len(calls) : calls[j].op = "trap"}}
\* the body of unit n is running in the call stack cs: the load of n has
\* bound the unit and has not completed
LoadingIn(cs, n) == \E i \in 1..Len(cs) : cs[i].stage = "exec" /\ cs[i].n = n
Loading(n) == LoadingIn(calls, n)
InstallerEvents == {"dryrun", "install"}
HasEvent(events, set) == \E i \in 1..Len(events) : events[i] \in set
\* the step runs the first statement of __getattr__ on placeholder p
StartsGetattr(p) == ph[p].lazy /\ ~ph'[p].lazy
\* the step ends the wait for pip of the innermost call: pip returned or
\* raised
PipEnds ==
    /\ calls # <<>>
    /\ Head(calls).stage = "pip"
    /\ calls' # calls
    /\ Len(calls') <= Len(calls)
\* the step sets __real_module__ on placeholder p (lazy.py, __getattr__:
\* what import_module returned)
SetsRealModule(p) == ph[p].real = Absent /\ ph'[p].real # Absent

\* ---------------------------------------------------------------- claims

\* C1: for every guard, the real install step runs at most once, whatever
\* the resolve() calls and placeholder accesses and whether the installer
\* returns or raises.
C1_InstallAtMostOnce == \A g \in Guards : installCalls[g] <= 1

\* C2: after a guard has exited, every registered name whose own
\* placeholder was never accessed is bound to the locked sentinel and its
\* import halts.  Stated here for what it implies whatever unlock() has
\* done since: the name is not bound to that placeholder, and an import of
\* the name does not return it.
C2_HaltedWhileOwnPlaceholderUntouched ==
    \A g \in Guards : \A n \in Keys(g) :
        (Exited(g) /\ modules[g][n].kind = "ph" /\ ph[modules[g][n].id].lazy)
        => /\ sys_modules[n] # modules[g][n]
           /\ \A loadOk \in BOOLEAN :
                 ~( /\ ImportNow(n, loadOk).outcome = "ok"
                    /\ ImportNow(n, loadOk).ret = modules[g][n] )

\* C3: an import inside the scope of an active guard makes no genuine load
\* and no installer call; at most it creates one fresh placeholder of the
\* front guard, binds it under the name and registers it to that guard.
C3_ImportInScopeIsInert ==
    \A n \in Names : \A loadOk \in BOOLEAN :
        meta_path # <<>> =>
            LET r == ImportNow(n, loadOk)
                g == Head(meta_path)
                id == Len(ph) + 1
            IN /\ ~HasEvent(r.events, {"load"} \cup InstallerEvents)
               /\ \/ /\ r.sm = sys_modules /\ r.ph = ph
                     /\ r.modules = modules /\ r.order = order
                  \/ /\ r.ph = Append(ph, [name |-> n, group |-> g, lazy |-> TRUE,
                                            real |-> Absent, magic |-> FALSE])
                     /\ r.sm = [sys_modules EXCEPT ![n] = Ph(id)]
                     /\ r.modules = [modules EXCEPT ![g][n] = Ph(id)]
                     /\ \A h \in Guards \ {g} : r.order[h] = order[h]
                     /\ Range(r.order[g]) = Keys(g) \cup {n}

C3_Witness ==
    \E n \in Names :
        /\ meta_path # <<>>
        /\ sys_modules[n].kind = "ph"
        /\ ph[sys_modules[n].id].lazy
        /\ ph[sys_modules[n].id].group = Head(meta_path)
        /\ modules[Head(meta_path)][n] = sys_modules[n]

\* C4: for a unit whose guard has no dependency spec, the first attribute
\* access on its placeholder makes exactly one genuine load and no installer
\* call: the step that starts __getattr__ begins the load of the unit (its
\* body runs next), or the lookup of the unit fails; it does not end with a
\* module that no load produced.  (A later access does not reach
\* __getattr__ at all: C14.)
C4_OneLoadNoInstaller ==
    [][\A p \in 1..Len(ph) :
          (StartsGetattr(p) /\ ~requires[ph[p].group])
          => \/ calls' = <<TrapFrame(p, "exec")>> \o calls
             \/ calls' = calls /\ ph'[p].real = Absent]_vars

\* C5: for a unit whose guard has a dependency spec and still needs the
\* install, the first attribute access runs unlock and then pip (dry run,
\* and the real install when the plan is not empty), and when pip has
\* returned one genuine load follows: the load of the unit begins, or the
\* lookup of the unit fails; the access does not end with a module that no
\* load produced.
C5_DryRunInstallLoadInOrder ==
    [][\A p \in 1..Len(ph) :
          LET g == ph[p].group IN
          /\ (StartsGetattr(p) /\ requires[g] /\ need_install[g])
             => /\ calls' = <<TrapFrame(p, "pip")>> \o calls
                /\ sys_modules' = unlock(order[g], sys_modules)
          /\ (PipEnds /\ Head(calls) = TrapFrame(p, "pip")
                      /\ need_install[g] /\ ~need_install'[g])
             => \/ calls' = <<TrapFrame(p, "exec")>> \o Tail(calls)
                \/ calls' = Tail(calls) /\ ph'[p].real = Absent]_vars

\* a name registered to guard a and to no other guard
OnlyOf(a, n) == n \in Keys(a) /\ \A b \in Guards \ {a} : n \notin Keys(b)

\* C6: once a guard b was entered while guard a was active and has exited,
\* an attribute access on a's placeholder of a name registered only to a
\* yields the genuine unit: what __getattr__ gets from import_module and
\* keeps is the real unit, bound under the name; and b's exit, lock and
\* unlock change no binding of a name registered only to a.
C6_NestedGuardLeavesOuterIntact ==
    /\ [](\A a \in Guards : \A b \in Guards \ {a} : \A n \in Names :
              OnlyOf(a, n)
              => /\ exit(meta_path, b, order[b], modules[b], sys_modules).sm[n]
                      = sys_modules[n]
                 /\ unlock(order[b], sys_modules)[n] = sys_modules[n])
    /\ [][\A a \in Guards : \A b \in Guards \ {a} : \A p \in 1..Len(ph) :
              ( /\ <<a, b>> \in nestedDone
                /\ ph[p].group = a /\ OnlyOf(a, ph[p].name)
                /\ modules[a][ph[p].name] = Ph(p)
                /\ SetsRealModule(p) )
              => /\ ph'[p].real = Real
                 /\ sys_modules'[ph[p].name] = Real]_vars

\* C7: an exit of a guard whose finder is in the chain but not at its front
\* is reported as an error and leaves the chain as it is.
C7_NonFrontExitIsFatal ==
    \A g \in Guards :
        (Active(g) /\ meta_path[1] # g)
        => LET r == exit(meta_path, g, order[g], modules[g], sys_modules) IN
           r.outcome # "ok" /\ r.meta_path = meta_path

\* C8: when the dry run or the real install raises during resolve(), that
\* exception leaves resolve() with need_install still true, and the call
\* that waited for pip (resolve() or the attribute access that called it)
\* ends there: it makes no genuine load nor any other lookup of the unit,
\* binds no real unit and sets no real module.
C8_InstallerFailurePropagates ==
    /\ [](\A e \in PipEnvs : _pip_install(e[1], e[2]).raised # "" =>
             \A g \in Guards : (need_install[g] /\ requires[g]) =>
                LET rr == resolve(need_install[g], requires[g], e[1], e[2]) IN
                /\ rr.raised = _pip_install(e[1], e[2]).raised
                /\ rr.need_install)
    /\ [][(PipEnds /\ need_install[Head(calls).g] /\ need_install'[Head(calls).g])
          => /\ calls' = Tail(calls)
             /\ sys_modules' = sys_modules
             /\ ph' = ph
             /\ modules' = modules
             /\ order' = order
             /\ need_install' = need_install]_vars

\* a placeholder whose trap was ended by the installer: it is no
\* VeryLazyModule any more, has no real module, and its guard still needs
\* the install
C8_Witness ==
    \E p \in 1..Len(ph) :
        /\ ~ph[p].lazy /\ ph[p].real = Absent /\ p \notin InProgress
        /\ need_install[ph[p].group] /\ requires[ph[p].group]
        /\ sys_modules[ph[p].name] = Absent

\* C9: while a guard is active, an import of any name, whatever its binding,
\* does not fail and returns a placeholder of the front guard.
C9_EveryLookupYieldsPlaceholder ==
    \A n \in Names : \A loadOk \in BOOLEAN :
        meta_path # <<>> =>
            LET r == ImportNow(n, loadOk) IN
            /\ r.outcome = "ok"
            /\ r.ret.kind = "ph"
            /\ r.ph[r.ret.id].group = Head(meta_path)
            /\ r.ph[r.ret.id].lazy

\* C10: the chain holds exactly the finders of the guards entered and not
\* yet exited, the most recently entered first; enter puts the finder at the
\* front and exit of the front guard removes that finder and nothing else.
C10_ChainIsStackOfOpenGuards ==
    /\ meta_path = entered
    /\ \A g \in Guards :
          /\ enter(meta_path, g) = <<g>> \o meta_path
          /\ (meta_path # <<>> /\ meta_path[1] = g)
             => exit(meta_path, g, order[g], modules[g], sys_modules).meta_path
                   = SubSeq(meta_path, 2, Len(meta_path))

\* an inner guard has exited and locked its name while the outer guard's
\* finder is still in the chain
C10_Witness ==
    \E a \in Guards : \E b \in Guards \ {a} : \E n \in Names :
        /\ meta_path = <<a>>
        /\ n \in Keys(b) /\ sys_modules[n] = Locked

\* C11: while guards are active, the import of a name that is absent from
\* sys.modules returns a fresh placeholder that is registered to the most
\* recently entered active guard and to no other guard, and only that
\* guard's finder is consulted (one hook, no ordinary load).
C11_FrontGuardOwnsNewPlaceholder ==
    \A n \in Names : \A loadOk \in BOOLEAN :
        (entered # <<>> /\ sys_modules[n] = Absent) =>
            LET r == ImportNow(n, loadOk)
                g == entered[1]
                id == Len(ph) + 1
            IN /\ r.outcome = "ok"
               /\ r.ret = Ph(id)
               /\ Len(r.ph) = id
               /\ r.ph[id].name = n /\ r.ph[id].group = g /\ r.ph[id].lazy
               /\ r.sm[n] = Ph(id)
               /\ r.modules[g][n] = Ph(id)
               /\ \A h \in Guards \ {g} : \A m \in Names : r.modules[h][m] # Ph(id)
               /\ r.events = <<"hook">>

\* two different guards are active, a name imported in the inner scope is
\* bound to a placeholder of the inner guard only, and another name is
\* still absent
C11_Witness ==
    \E n \in Names : \E m \in Names \ {n} :
        /\ Len(meta_path) = 2 /\ meta_path[1] # meta_path[2]
        /\ sys_modules[n].kind = "ph"
        /\ ph[sys_modules[n].id].group = meta_path[1]
        /\ modules[meta_path[1]][n] = sys_modules[n]
        /\ n \notin Keys(meta_path[2])
        /\ sys_modules[m] = Absent

\* C12: whenever the trap of a placeholder completes without error, the
\* object it got from the load step and keeps as __real_module__ is the
\* genuine unit (not the placeholder, not another placeholder) and the name
\* is bound to the genuine unit, also while a guard is active.
C12_CompletedTrapHoldsGenuineUnit ==
    [][\A p \in 1..Len(ph) :
          SetsRealModule(p)
          => /\ ph'[p].real = Real
             /\ sys_modules'[ph[p].name] = Real]_vars

\* C13: a placeholder is resolved (its reads no longer trap, no trap of it
\* being in progress) only if a genuine load of its unit completed and the
\* members were copied onto it; a trap that fails in unlock, resolve or the
\* load leaves it unresolved.
C13_ResolvedOnlyAfterLoad ==
    \A p \in 1..Len(ph) :
        (~ph[p].lazy /\ p \notin InProgress) => (ph[p].real = Real /\ ph[p].magic)

\* C14: __getattr__ (unlock, resolve, genuine load) is started at most once
\* for each placeholder: a read on a placeholder whose __getattr__ is in
\* progress (pip or the body of the unit running) or has ended does not
\* trap, and neither does a read of __real_module__ on it.
C14_ProtocolStartedAtMostOnce ==
    /\ \A p \in 1..MaxPlaceholders : trapStarts[p] <= 1
    /\ \A p \in 1..Len(ph) : \A attr \in Attrs :
          (p \in InProgress \/ trapStarts[p] > 0) => ~Traps(p, attr)

\* the __getattr__ of one placeholder waits for the body of its unit while
\* that of a second placeholder, started from there, waits for pip
C14_Witness ==
    /\ Len(calls) = 2
    /\ calls[1].op = "trap" /\ calls[1].stage = "pip"
    /\ calls[2].op = "trap" /\ calls[2].stage = "exec"
    /\ calls[1].p # calls[2].p
    /\ trapStarts[calls[1].p] = 1 /\ trapStarts[calls[2].p] = 1

\* C15, as stated: once the binding of a name is the real unit, it is never
\* again the locked sentinel or a placeholder.
C15_RealNeverReverts ==
    \A n \in everReal : sys_modules[n] # Locked /\ sys_modules[n].kind # "ph"

\* C15, amended: in every step of every interleaving of enter, exit, imports
\* and attribute accesses, a name that is bound to the real unit and whose
\* load has completed stays bound to the real unit, so it is not rewritten
\* to the locked sentinel or to a placeholder.
C15_LoadedRealIsFinal ==
    [][\A n \in Names :
          (sys_modules[n] = Real /\ ~Loading(n))
          => (sys_modules'[n] = Real /\ ~LoadingIn(calls', n))]_vars

\* a guard has exited, and so run lock(), with its first name bound to the
\* real unit, loaded: the name after it was locked, the real unit was kept
C15_Witness ==
    \E g \in Guards : \E n \in Names : \E m \in Names \ {n} :
        /\ order[g] = <<n, m>>
        /\ sys_modules[n] = Real /\ ~Loading(n)
        /\ sys_modules[m] = Locked
        /\ modules[g][m].kind = "ph"
        /\ ph[modules[g][m].id].lazy

\* the guards a name is registered to
Owners(n) == {g \in Guards : n \in Keys(g)}

\* C16: a name bound to the locked sentinel is registered to exactly one
\* guard, only the unlock() of that guard removes the sentinel, and a
\* registered name is bound to the real unit by nothing but the load step
\* of its own placeholder (so not by an ordinary import).
C16_LockedNameHasOneOwner ==
    /\ \A n \in Names : sys_modules[n] = Locked => Cardinality(Owners(n)) = 1
    /\ \A n \in Names : \A h \in Guards :
          (sys_modules[n] = Locked /\ unlock(order[h], sys_modules)[n] # Locked)
          => Owners(n) = {h}
    /\ \A n \in Names : \A loadOk \in BOOLEAN :
          (Owners(n) # {} /\ sys_modules[n] # Real)
          => ImportNow(n, loadOk).sm[n] # Real

\* C17: lock(), called in any reachable state, rewrites to the locked
\* sentinel exactly the registered names bound to the guard's own
\* placeholder, leaves every other binding as it is, and does not raise.
C17_LockRewritesOwnPlaceholdersOnly ==
    \A g \in Guards :
        LET r == lock(order[g], modules[g], sys_modules) IN
        /\ ~r.raised
        /\ \A n \in Names :
              r.sm[n] = IF /\ n \in Keys(g)
                           /\ modules[g][n].kind = "ph"
                           /\ sys_modules[n] = modules[g][n]
                        THEN Locked ELSE sys_modules[n]

\* C18: unlock() deletes the entry of exactly the names registered to the
\* guard that are bound to the locked sentinel, leaves every placeholder,
\* real unit and name of no concern to the guard as it is, and a second
\* unlock() changes nothing more.
C18_UnlockRemovesOwnSentinelsOnly ==
    \A g \in Guards :
        LET u == unlock(order[g], sys_modules) IN
        /\ \A n \in Names :
              u[n] = IF n \in Keys(g) /\ sys_modules[n] = Locked
                     THEN Absent ELSE sys_modules[n]
        /\ unlock(order[g], u) = u

\* __getattr__ of a placeholder of one guard has run unlock() and waits for
\* pip: the name of the placeholder is absent again, and a name locked by
\* the other guard is still locked
C18_Witness ==
    \E i \in 1..Len(calls) :
        /\ calls[i].op = "trap" /\ calls[i].stage = "pip"
        /\ sys_modules[calls[i].n] = Absent
        /\ \E h \in Guards \ {calls[i].g} : \E m \in Keys(h) \ Keys(calls[i].g) :
              sys_modules[m] = Locked

\* C19: need_install is true at first iff the guard has a dependency spec
\* and never goes from false to true (so it is true only for a guard with a
\* spec); resolve() clears it only when the installer returned and leaves it
\* when the installer raised; exit, lock and unlock do not touch it.
C19_NeedInstallFollowsSpec ==
    \A g \in Guards :
        /\ need_install[g] => requires[g]
        /\ \A e \in PipEnvs :
              LET rr == resolve(need_install[g], requires[g], e[1], e[2]) IN
              /\ ~need_install[g] => ~rr.need_install
              /\ (need_install[g] /\ ~rr.need_install) => rr.raised = ""
              /\ rr.raised # "" => rr.need_install = need_install[g]

\* the exception raised by the guarded block
BlockError == "BlockError"

\* C20: when the guarded block raises, exit removes the guard's finder from
\* the chain, locks every name bound to the guard's own placeholder, and
\* the error of the block reaches the caller.
C20_ExitOnErrorCleansUp ==
    \A g \in Guards :
        Active(g) =>
            LET r == with_exit(meta_path, g, order[g], modules[g], sys_modules,
                               BlockError)
            IN /\ r.meta_path = Remove(meta_path, g)
               /\ \A n \in Keys(g) :
                     (modules[g][n].kind = "ph" /\ sys_modules[n] = modules[g][n])
                     => r.sm[n] = Locked
               /\ r.propagates = BlockError

====
